---- MODULE Spec2Model ----
(***************************************************************************)
(* Model of platformio/telemetry.py: the MPDataPusher dispatch engine      *)
(* (LIFO queue, worker threads, off-line flag, failed queue), the          *)
(* MeasurementProtocol.send entry point, the atexit routine _finalize and  *)
(* the backup / resend of undelivered reports through the application     *)
(* state item "telemetry".                                                 *)
(*                                                                         *)
(* A report (the dict of parameters) is modelled as [id, qt]: id stands    *)
(* for the payload, qt for the kind of value stored under the "qt" key     *)
(* ("none": key absent, "float": UNIX time, "int": elapsed milliseconds).  *)
(* Threads interleave between the blocking or shared-state operations of   *)
(* the code: Queue.get, deque.append, the HTTP post, deque.remove and      *)
(* task_done for a worker; the polls of in_wait, list(failedque), every    *)
(* get_nowait and the final save for the main thread.                      *)
(***************************************************************************)
EXTENDS Integers, Sequences, FiniteSets, Bags, TLC

\* ------------------------------------------------------------------ bounds

\* reports created by the callers over a whole behaviour (ids 1..MaxRecords)
MaxRecords == 2

\* reports submitted in the behaviours of PoolSpec (submits and worker steps
\* of one process), enough for the queue to be deeper than MAX_WORKERS
PoolRecords == 6

\* the records the workers of the pool's process go on with after the get
PoolSends == 2

\* the longest stored backlog a process of ResendSpec starts with
ResendRecords == 2

\* KEEP_MAX_REPORTS is 100 in telemetry.py:373; the model keeps the
\* truncation of backup_reports and scales the cap so that reports beyond
\* the cap occur within MaxRecords.
KEEP_MAX_REPORTS == 1

\* -------------------------------------------------------- program constants

MAX_WORKERS == 5

FINALIZE_TIMEOUT == 1000

FINALIZE_STEP == 200

\* ------------------------------------------------------------------ state

VARIABLES
    store,              \* app state item "telemetry" -> 'backup' (persistent)
    enable_telemetry,   \* app setting read by MeasurementProtocol.send
    queue,              \* MPDataPusher._queue, a LifoQueue: Last(queue) is the top
    unfinished,         \* MPDataPusher._queue.unfinished_tasks
    failedque,          \* MPDataPusher._failedque
    http_offline,       \* MPDataPusher._http_offline
    workers,            \* the worker threads started: the bag of their positions
    main,               \* position and locals of the main thread, len(_workers)
    nextId,             \* next report the callers create
    hist                \* history of the current process (observation only)

vars == <<store, enable_telemetry, queue, unfinished, failedque, http_offline,
          workers, main, nextId, hist>>

\* ---------------------------------------------------------------- helpers

Min(a, b) == IF a <= b THEN a ELSE b

Max(a, b) == IF a >= b THEN a ELSE b

Last(s) == s[Len(s)]

Front(s) == SubSeq(s, 1, Len(s) - 1)

Ids(s) == {s[i].id : i \in 1..Len(s)}

\* deque.remove(x): removes the first element equal to x
RECURSIVE RemoveFirst(_, _)
RemoveFirst(s, x) ==
    IF s = <<>> THEN <<>>
    ELSE IF Head(s) = x THEN Tail(s)
    ELSE <<Head(s)>> \o RemoveFirst(Tail(s), x)

Report(i, q) == [id |-> i, qt |-> q]

\* responses of the HTTP post: 0 stands for a network error, a timeout or any
\* other exception that is not an HTTPError; otherwise the HTTP status code
Responses == {0, 200, 302, 400, 404, 499, 500, 503}

\* requests' Response.raise_for_status raises HTTPError for 400..599
RaisesHTTPError(status) == status >= 400 /\ status < 600

\* the outcome classes of the transport boundary: 2xx/3xx without error is
\* Delivered, 4xx is Rejected, anything else is Unreachable
IsDelivered(resp) == resp # 0 /\ ~RaisesHTTPError(resp)

IsRejected(resp) == resp \in 400..499

IsUnreachable(resp) == ~IsDelivered(resp) /\ ~IsRejected(resp)

\* the HTTPError branch of _send_data: "skip Bad Request"
SkipsBadRequest(status) == 400 >= status /\ status < 500

\* a _send_data that returns False on a 5xx answer without setting the flag
SendDataReturnQuietServerError(resp) ==
    IF resp # 0 /\ ~RaisesHTTPError(resp) THEN [ret |-> TRUE, trip |-> FALSE]
    ELSE IF resp # 0 /\ SkipsBadRequest(resp) THEN [ret |-> TRUE, trip |-> FALSE]
    ELSE IF resp >= 500 THEN [ret |-> FALSE, trip |-> FALSE]
    ELSE [ret |-> FALSE, trip |-> TRUE]

\* _send_data once the post has ended with `resp`: the value returned and
\* whether _http_offline is set
SendDataReturn(resp) ==
    IF resp # 0 /\ ~RaisesHTTPError(resp) THEN [ret |-> TRUE, trip |-> FALSE]
    ELSE IF resp # 0 /\ SkipsBadRequest(resp) THEN [ret |-> TRUE, trip |-> FALSE]
    ELSE [ret |-> FALSE, trip |-> TRUE]

\* MeasurementProtocol.send, "correct queue time": a float qt (UNIX time of a
\* backed-up report) becomes the elapsed milliseconds
CorrectQueueTime(rec) == Report(rec.id, IF rec.qt = "float" THEN "int" ELSE rec.qt)

\* a copy that is left without qt
StampQtNever(rec) == rec

\* 'if "qt" not in item: item["qt"] = time()' of push and _worker
StampQt(rec) == Report(rec.id, IF rec.qt = "none" THEN "float" ELSE rec.qt)

\* backup_reports, "store time in UNIX format"
UnixQt(rec) == Report(rec.id, "float")

RECURSIVE MapUnixQt(_)
MapUnixQt(s) == IF s = <<>> THEN <<>> ELSE <<UnixQt(Head(s))>> \o MapUnixQt(Tail(s))

\* a backup that saves the list without the slice
KeepLastUncapped(s) == s

\* tm['backup'][KEEP_MAX_REPORTS * -1:]
KeepLast(s) ==
    IF Len(s) <= KEEP_MAX_REPORTS THEN s
    ELSE SubSeq(s, Len(s) - KEEP_MAX_REPORTS + 1, Len(s))

\* backup_reports(items) on the stored list `old`: the list saved
BackupList(old, items) == KeepLast(old \o MapUnixQt(items))

NoReport == Report(0, "none")

\* a worker thread blocked in Queue.get
IdleWorker == [pc |-> "idle", item |-> NoReport, res |-> FALSE]

\* the worker threads are interchangeable: `workers` is the bag of the
\* positions of the threads that were started
OneWorker(t) == SetToBag({t})

\* the thread at position `t` moves to position `u`
MoveWorker(ws, t, u) == (ws (-) OneWorker(t)) (+) OneWorker(u)

\* a pool that starts one thread for every queued item, without the cap
StartNumsUncapped(qsize, active_nums) ==
    LET need_nums == qsize
    IN  IF need_nums <= active_nums THEN 0 ELSE need_nums - active_nums

\* a pool that starts threads only while it has none
StartNumsOnlyWhenEmpty(qsize, active_nums) ==
    LET need_nums == Min(qsize, MAX_WORKERS)
    IN  IF active_nums > 0 THEN 0 ELSE need_nums

\* _tune_workers: the number of threads its loop starts, from the qsize() and
\* the len(self._workers) it read
StartNums(qsize, active_nums) ==
    LET need_nums == Min(qsize, MAX_WORKERS)
    IN  IF need_nums <= active_nums THEN 0 ELSE need_nums - active_nums

\* MPDataPusher.in_wait
in_wait == unfinished

NoHist ==
    [submitted |-> {}, queued |-> {}, offpush |-> {}, posted |-> {},
     reposted |-> {},
     delivered |-> {}, rejected |-> {}, unreachable |-> {}, snapDone |-> {},
     capDropped |-> {}, depth |-> 0,
     waitEnd |-> "none", saved |-> FALSE, store0 |-> <<>>]

\* the main thread: its position, the backlog the resend loop still has to
\* go through, the elapsed time and the snapshot of _finalize, the length of
\* the roster self._workers (only this thread reads and writes it) and the
\* turns the loop of _tune_workers still has to make
MainStart ==
    [pc |-> "start", tm |-> <<>>, elapsed |-> 0, items |-> <<>>,
     roster |-> 0, start |-> 0]

Init ==
    /\ store = <<>>
    /\ enable_telemetry \in BOOLEAN
    /\ queue = <<>>
    /\ unfinished = 0
    /\ failedque = <<>>
    /\ http_offline = FALSE
    /\ workers = EmptyBag
    /\ main = MainStart
    /\ nextId = 1
    /\ hist = NoHist

\* ------------------------------------------------------------ main thread

\* MPDataPusher.push(item): the test of self._http_offline; off-line the item
\* is stamped and appended to _failedque and push returns, else the put and
\* _tune_workers are still to run (PushPut, PushTune)
Push(item) ==
    IF http_offline
    THEN /\ failedque' = Append(failedque, StampQt(item))
         /\ hist' = [hist EXCEPT !.submitted = @ \cup {item.id},
                                 !.offpush = @ \cup {item.id}]
         /\ UNCHANGED <<queue, unfinished, workers>>
    ELSE UNCHANGED <<queue, unfinished, failedque, workers, hist>>

\* send reaches self._queue.put: telemetry is enabled and push read the
\* off-line flag as False
PutsOnQueue == enable_telemetry /\ ~http_offline

\* the main thread is between self._queue.put(item) and the return of
\* self._tune_workers()
InPush ==
    main.pc \in {"tune", "spawn", "enroll",
                 "resend_tune", "resend_spawn", "resend_enroll"}

\* the push in progress was called by the loop of resend_backuped_reports
InResendPush == main.pc \in {"resend_tune", "resend_spawn", "resend_enroll"}

\* the item of the push in progress: the new report of on_event, or the
\* stored report the resend loop is at, as MeasurementProtocol.send passes it
PushItem ==
    CorrectQueueTime(IF main.pc = "put" THEN Report(nextId, "none")
                     ELSE Head(main.tm))

\* MPDataPusher.push: self._queue.put(item), whatever the flag has become
\* since push tested it
PushPut ==
    /\ main.pc \in {"put", "resend_put"}
    /\ queue' = Append(queue, PushItem)
    /\ unfinished' = unfinished + 1
    /\ hist' = [hist EXCEPT !.submitted = @ \cup {PushItem.id},
                            !.queued = @ \cup {PushItem.id}]
    /\ IF main.pc = "put"
       THEN /\ nextId' = nextId + 1
            /\ main' = [main EXCEPT !.pc = "tune"]
       ELSE /\ nextId' = nextId
            /\ main' = [main EXCEPT !.pc = "resend_tune", !.tm = Tail(@)]
    /\ UNCHANGED <<store, enable_telemetry, failedque, http_offline, workers>>

\* _tune_workers up to its loop: no thread of the roster is dead (a worker
\* never leaves its loop), qsize() and len(self._workers) are read, and the
\* call returns when no thread is needed; push then returns to its caller
\* (on_event ..., or the loop of resend_backuped_reports)
TuneWorkers ==
    /\ main.pc \in {"tune", "resend_tune"}
    /\ LET n == StartNums(Len(queue), main.roster)
       IN  main' = [main EXCEPT
                      !.start = n,
                      !.pc = IF n = 0
                             THEN (IF InResendPush THEN "resend" ELSE "run")
                             ELSE (IF InResendPush THEN "resend_spawn" ELSE "spawn")]
    /\ hist' = [hist EXCEPT !.depth = Max(@, Len(queue))]
    /\ UNCHANGED <<store, enable_telemetry, queue, unfinished, failedque,
                   http_offline, workers, nextId>>

\* _tune_workers, one turn of the loop: t.start(); the new thread runs from
\* now on, the roster does not hold it yet
StartWorker ==
    /\ main.pc \in {"spawn", "resend_spawn"}
    /\ workers' = workers (+) OneWorker(IdleWorker)
    /\ main' = [main EXCEPT
                   !.pc = IF InResendPush THEN "resend_enroll" ELSE "enroll"]
    /\ UNCHANGED <<store, enable_telemetry, queue, unfinished, failedque,
                   http_offline, nextId, hist>>

\* _tune_workers, the same turn: self._workers.append(t); after the last turn
\* push returns to its caller
EnrollWorker ==
    /\ main.pc \in {"enroll", "resend_enroll"}
    /\ main' = [main EXCEPT
                   !.roster = @ + 1,
                   !.start = @ - 1,
                   !.pc = IF main.start > 1
                          THEN (IF InResendPush THEN "resend_spawn" ELSE "spawn")
                          ELSE (IF InResendPush THEN "resend" ELSE "run")]
    /\ UNCHANGED <<store, enable_telemetry, queue, unfinished, failedque,
                   http_offline, workers, nextId, hist>>

\* MPDataPusher.push: self._tune_workers(), step by step
PushTune == TuneWorkers \/ StartWorker \/ EnrollWorker

\* MeasurementProtocol.send(hittype) on the parameters `rec`
MPSend(rec) ==
    IF ~enable_telemetry
    THEN UNCHANGED <<queue, unfinished, failedque, workers, hist>>
    ELSE Push(CorrectQueueTime(rec))

\* on_event / on_exception / on_run_environment: a new MeasurementProtocol
\* (no qt) is filled and sent
Submit ==
    /\ main.pc \in {"start", "run"}
    /\ nextId <= MaxRecords
    /\ MPSend(Report(nextId, "none"))
    /\ nextId' = IF PutsOnQueue THEN nextId ELSE nextId + 1
    /\ main' = [main EXCEPT !.pc = IF PutsOnQueue THEN "put" ELSE "run"]
    /\ UNCHANGED <<store, enable_telemetry, http_offline>>

\* resend_backuped_reports: the state item is read; nothing to resend returns
ResendLoad ==
    /\ main.pc = "start"
    /\ main' = IF store = <<>> THEN [main EXCEPT !.pc = "run"]
               ELSE [main EXCEPT !.pc = "resend", !.tm = store]
    /\ UNCHANGED <<store, enable_telemetry, queue, unfinished, failedque,
                   http_offline, workers, nextId, hist>>

\* a resend loop that takes the next report without sending it
ResendOneSkipsSend ==
    /\ main.pc = "resend"
    /\ main.tm # <<>>
    /\ main' = [main EXCEPT !.tm = Tail(@)]
    /\ UNCHANGED <<store, enable_telemetry, queue, unfinished, failedque,
                   http_offline, workers, nextId, hist>>

\* resend_backuped_reports: one turn of "for report in tm['backup']"
ResendOne ==
    /\ main.pc = "resend"
    /\ main.tm # <<>>
    /\ MPSend(Head(main.tm))
    /\ main' = IF PutsOnQueue THEN [main EXCEPT !.pc = "resend_put"]
               ELSE [main EXCEPT !.tm = Tail(@)]
    /\ UNCHANGED <<store, enable_telemetry, http_offline, nextId>>

\* resend_backuped_reports: "clean" and set_state_item
ResendClean ==
    /\ main.pc = "resend"
    /\ main.tm = <<>>
    /\ store' = <<>>
    /\ main' = [main EXCEPT !.pc = "run"]
    /\ UNCHANGED <<enable_telemetry, queue, unfinished, failedque, http_offline,
                   workers, nextId, hist>>

\* atexit: _finalize starts
FinalizeBegin ==
    /\ main.pc \in {"start", "run"}
    /\ main' = [main EXCEPT !.pc = "wait", !.elapsed = 0]
    /\ UNCHANGED <<store, enable_telemetry, queue, unfinished, failedque,
                   http_offline, workers, nextId, hist>>

\* _finalize: one turn of "while elapsed < timeout"
FinalizePoll ==
    /\ main.pc = "wait"
    /\ main.elapsed < FINALIZE_TIMEOUT
    /\ IF in_wait = 0
       THEN /\ main' = [main EXCEPT !.pc = "snapshot"]
            /\ hist' = [hist EXCEPT !.waitEnd = "drained"]
       ELSE /\ main' = [main EXCEPT !.elapsed = @ + FINALIZE_STEP]
            /\ UNCHANGED hist
    /\ UNCHANGED <<store, enable_telemetry, queue, unfinished, failedque,
                   http_offline, workers, nextId>>

\* _finalize: the loop ends because elapsed reached the timeout
FinalizeTimeout ==
    /\ main.pc = "wait"
    /\ main.elapsed >= FINALIZE_TIMEOUT
    /\ main' = [main EXCEPT !.pc = "snapshot"]
    /\ hist' = [hist EXCEPT !.waitEnd = "timeout"]
    /\ UNCHANGED <<store, enable_telemetry, queue, unfinished, failedque,
                   http_offline, workers, nextId>>

\* backup_reports: "store time in UNIX format" rewrites qt in the dicts of
\* `items`, which are the very dicts held in _failedque (get_items copies the
\* list, not the dicts)
BackupTouch(fq, items) ==
    [i \in 1..Len(fq) |-> IF fq[i].id \in Ids(items) THEN UnixQt(fq[i]) ELSE fq[i]]

\* _finalize: KeyboardInterrupt raised anywhere in the try (the wait loop,
\* get_items, or backup_reports before set_state_item; there the loop has
\* rewritten the first k items); "except KeyboardInterrupt: pass" ends the
\* routine and nothing is saved
FinalizeInterrupt ==
    /\ main.pc \in {"wait", "snapshot", "drain"}
    /\ \E k \in (IF main.pc = "drain" /\ queue = <<>>
                  THEN 0..Len(main.items) ELSE {0}) :
          failedque' = BackupTouch(failedque, SubSeq(main.items, 1, k))
    /\ main' = [main EXCEPT !.pc = "exited"]
    /\ hist' = [hist EXCEPT !.waitEnd = "interrupt"]
    /\ UNCHANGED <<store, enable_telemetry, queue, unfinished,
                   http_offline, workers, nextId>>

\* get_items: items = list(self._failedque)
GetItemsList ==
    /\ main.pc = "snapshot"
    /\ main' = [main EXCEPT !.pc = "drain", !.items = failedque]
    /\ hist' = [hist EXCEPT !.snapDone = hist.delivered \cup hist.rejected]
    /\ UNCHANGED <<store, enable_telemetry, queue, unfinished, failedque,
                   http_offline, workers, nextId>>

\* get_items: items.append(self._queue.get_nowait())
GetItemsDrain ==
    /\ main.pc = "drain"
    /\ queue # <<>>
    /\ main' = [main EXCEPT !.items = Append(@, Last(queue))]
    /\ queue' = Front(queue)
    /\ UNCHANGED <<store, enable_telemetry, unfinished, failedque, http_offline,
                   workers, nextId, hist>>

\* get_items: Queue.Empty ends the loop; backup_reports(items); the process ends
BackupReports ==
    /\ main.pc = "drain"
    /\ queue = <<>>
    /\ IF main.items = <<>>
       THEN UNCHANGED <<store, hist>>
       ELSE /\ store' = BackupList(store, main.items)
            /\ hist' = [hist EXCEPT
                   !.saved = TRUE,
                   !.capDropped = (Ids(store) \cup Ids(main.items)) \ Ids(store')]
    /\ failedque' = BackupTouch(failedque, main.items)
    /\ main' = [main EXCEPT !.pc = "exited"]
    /\ UNCHANGED <<enable_telemetry, queue, unfinished, http_offline,
                   workers, nextId>>

\* a new process: the module is imported again, the state item persists; any
\* number of processes may follow one another
NewProcess ==
    /\ main.pc = "exited"
    /\ enable_telemetry' \in BOOLEAN
    /\ queue' = <<>>
    /\ unfinished' = 0
    /\ failedque' = <<>>
    /\ http_offline' = FALSE
    /\ workers' = EmptyBag
    /\ main' = MainStart
    /\ hist' = [NoHist EXCEPT !.store0 = store]
    /\ UNCHANGED <<store, nextId>>

\* --------------------------------------------------------- worker threads

Running == main.pc # "exited"

\* a worker that takes the oldest queued report (a FIFO queue)
WorkerGetFifo(t) ==
    /\ Running
    /\ t.pc = "idle"
    /\ queue # <<>>
    /\ workers' = MoveWorker(workers, t, [t EXCEPT !.pc = "got", !.item = Head(queue)])
    /\ queue' = Tail(queue)
    /\ UNCHANGED <<store, enable_telemetry, unfinished, failedque, http_offline,
                   main, nextId, hist>>

\* _worker: item = self._queue.get()
WorkerGet(t) ==
    /\ Running
    /\ t.pc = "idle"
    /\ queue # <<>>
    /\ workers' = MoveWorker(workers, t, [t EXCEPT !.pc = "got", !.item = Last(queue)])
    /\ queue' = Front(queue)
    /\ UNCHANGED <<store, enable_telemetry, unfinished, failedque, http_offline,
                   main, nextId, hist>>

\* _worker: _item = item.copy(), stamped, self._failedque.append(_item)
WorkerTrack(t) ==
    /\ Running
    /\ t.pc = "got"
    /\ failedque' = Append(failedque, StampQt(t.item))
    /\ workers' = MoveWorker(workers, t, [t EXCEPT !.pc = "tracked"])
    /\ UNCHANGED <<store, enable_telemetry, queue, unfinished, http_offline,
                   main, nextId, hist>>

\* a worker that, off-line, goes back to the queue without task_done()
WorkerTestOfflineNotDone(t) ==
    /\ Running
    /\ t.pc = "tracked"
    /\ workers' = MoveWorker(workers, t,
                      IF http_offline THEN IdleWorker ELSE [t EXCEPT !.pc = "send"])
    /\ UNCHANGED <<store, enable_telemetry, queue, unfinished, failedque,
                   http_offline, main, nextId, hist>>

\* _send_data: "if self._http_offline: return False"
WorkerTest(t) ==
    /\ Running
    /\ t.pc = "tracked"
    /\ workers' = MoveWorker(workers, t,
                      IF http_offline THEN [t EXCEPT !.pc = "sent", !.res = FALSE]
                      ELSE [t EXCEPT !.pc = "send"])
    /\ UNCHANGED <<store, enable_telemetry, queue, unfinished, failedque,
                   http_offline, main, nextId, hist>>

\* _send_data: self._http_session.post(...) is called, whatever the flag has
\* become since the test
WorkerSend(t) ==
    /\ Running
    /\ t.pc = "send"
    /\ workers' = MoveWorker(workers, t, [t EXCEPT !.pc = "post"])
    /\ hist' = [hist EXCEPT
           !.posted = @ \cup {t.item.id},
           !.reposted = IF t.item.id \in hist.posted
                        THEN @ \cup {t.item.id} ELSE @]
    /\ UNCHANGED <<store, enable_telemetry, queue, unfinished, failedque,
                   http_offline, main, nextId>>

\* _send_data: the post ends with `resp`
WorkerPost(t, resp) ==
    /\ Running
    /\ t.pc = "post"
    /\ LET r == SendDataReturn(resp)
       IN  /\ http_offline' = (http_offline \/ r.trip)
           /\ workers' = MoveWorker(workers, t, [t EXCEPT !.pc = "sent", !.res = r.ret])
           /\ hist' = [hist EXCEPT
                  !.delivered = IF IsDelivered(resp) THEN @ \cup {t.item.id} ELSE @,
                  !.rejected = IF IsRejected(resp) THEN @ \cup {t.item.id} ELSE @,
                  !.unreachable = IF IsUnreachable(resp) THEN @ \cup {t.item.id}
                                  ELSE @]
    /\ UNCHANGED <<store, enable_telemetry, queue, unfinished, failedque,
                   main, nextId>>

\* a worker that leaves the copy in _failedque after a send that returned True
WorkerRemoveKeepsCopy(t) ==
    /\ Running
    /\ t.pc = "sent"
    /\ t.res
    /\ workers' = MoveWorker(workers, t, [t EXCEPT !.pc = "done"])
    /\ UNCHANGED <<store, enable_telemetry, queue, unfinished, failedque,
                   http_offline, main, nextId, hist>>

\* _worker: self._failedque.remove(_item) after a send that returned True;
\* remove raises ValueError when the copy is absent and the bare except takes
\* the thread back to the top of its loop, past task_done
WorkerRemove(t) ==
    /\ Running
    /\ t.pc = "sent"
    /\ t.res
    /\ LET _item == StampQt(t.item)
           present == \E i \in 1..Len(failedque) : failedque[i] = _item
       IN  IF present
           THEN /\ failedque' = RemoveFirst(failedque, _item)
                /\ workers' = MoveWorker(workers, t, [t EXCEPT !.pc = "done"])
           ELSE /\ failedque' = failedque
                /\ workers' = MoveWorker(workers, t, IdleWorker)
    /\ UNCHANGED <<store, enable_telemetry, queue, unfinished, http_offline,
                   main, nextId, hist>>

\* the thread stands at self._queue.task_done(): after the remove, or after a
\* send that returned False
AtTaskDone(t) == t.pc = "done" \/ (t.pc = "sent" /\ ~t.res)

\* a worker that puts the report back on the queue after a send that returned
\* False
WorkerFinishRequeues(t) ==
    /\ Running
    /\ t.pc = "done" \/ (t.pc = "sent" /\ ~t.res)
    /\ queue' = IF t.pc = "done" THEN queue ELSE Append(queue, t.item)
    /\ unfinished' = IF t.pc = "done" THEN unfinished - 1 ELSE unfinished
    /\ workers' = MoveWorker(workers, t, IdleWorker)
    /\ UNCHANGED <<store, enable_telemetry, failedque, http_offline, main,
                   nextId, hist>>

\* a worker that calls task_done() only after a send that returned True
WorkerFinishDoneOnSuccess(t) ==
    /\ Running
    /\ t.pc = "done" \/ (t.pc = "sent" /\ ~t.res)
    /\ unfinished' = IF t.pc = "done" THEN unfinished - 1 ELSE unfinished
    /\ workers' = MoveWorker(workers, t, IdleWorker)
    /\ UNCHANGED <<store, enable_telemetry, queue, failedque, http_offline,
                   main, nextId, hist>>

\* _worker: self._queue.task_done(); the thread goes back to queue.get()
WorkerFinish(t) ==
    /\ Running
    /\ AtTaskDone(t)
    /\ unfinished' = unfinished - 1
    /\ workers' = MoveWorker(workers, t, IdleWorker)
    /\ UNCHANGED <<store, enable_telemetry, queue, failedque, http_offline,
                   main, nextId, hist>>

WorkerStep ==
    \E t \in BagToSet(workers) :
        \/ WorkerGet(t)
        \/ WorkerTrack(t)
        \/ WorkerTest(t)
        \/ WorkerSend(t)
        \/ \E resp \in Responses : WorkerPost(t, resp)
        \/ WorkerRemove(t)
        \/ WorkerFinish(t)

Next ==
    \/ Submit
    \/ PushPut
    \/ PushTune
    \/ ResendLoad
    \/ ResendOne
    \/ ResendClean
    \/ FinalizeBegin
    \/ FinalizePoll
    \/ FinalizeTimeout
    \/ FinalizeInterrupt
    \/ GetItemsList
    \/ GetItemsDrain
    \/ BackupReports
    \/ NewProcess
    \/ WorkerStep

Spec == Init /\ [][Next]_vars

\* on_event called PoolRecords times in one process
PoolSubmit ==
    /\ main.pc \in {"start", "run"}
    /\ nextId <= PoolRecords
    /\ MPSend(Report(nextId, "none"))
    /\ nextId' = IF PutsOnQueue THEN nextId ELSE nextId + 1
    /\ main' = [main EXCEPT !.pc = IF PutsOnQueue THEN "put" ELSE "run"]
    /\ UNCHANGED <<store, enable_telemetry, http_offline>>

\* the answers of the server in the pool's process: every post is answered 200
PoolResponses == {200}

\* the records a worker has gone on with after queue.get(): their copy is in
\* _failedque or their post was answered
PoolStarted == Ids(failedque) \cup hist.delivered

\* the workers' steps in the pool's process; the workers go on with at most
\* PoolSends records after the get, the other gets stay in progress
PoolWorkerStep ==
    \E t \in BagToSet(workers) :
        \/ WorkerGet(t)
        \/ Cardinality(PoolStarted) < PoolSends /\ WorkerTrack(t)
        \/ WorkerTest(t)
        \/ WorkerSend(t)
        \/ \E resp \in PoolResponses : WorkerPost(t, resp)
        \/ WorkerRemove(t)
        \/ WorkerFinish(t)

\* the steps of the pool's process: the callers push, the workers deliver
PoolNext == PoolSubmit \/ PushPut \/ PushTune \/ PoolWorkerStep

\* one process in which PoolRecords reports are pushed while its workers run
PoolSpec == Init /\ [][PoolNext]_vars

\* the worker threads are scheduled and every post ends (timeout=1); the main
\* thread goes on from put to _tune_workers
LiveSpec ==
    Spec /\ WF_vars(WorkerStep) /\ WF_vars(PushPut) /\ WF_vars(PushTune)

\* a process that starts with nothing stored: it submits, its workers run and
\* it shuts down
RunNext ==
    \/ Submit
    \/ PushPut
    \/ PushTune
    \/ FinalizeBegin
    \/ FinalizePoll
    \/ FinalizeTimeout
    \/ FinalizeInterrupt
    \/ GetItemsList
    \/ GetItemsDrain
    \/ BackupReports
    \/ WorkerStep

\* the same process with its worker threads scheduled fairly
RunSpec ==
    /\ Init /\ [][RunNext]_vars
    /\ WF_vars(WorkerStep) /\ WF_vars(PushPut) /\ WF_vars(PushTune)

\* the backlogs a starting process may find in the state item: reports 1..n
\* as backup_reports stores them (qt a unix time); telemetry.py keeps up to
\* 100 of them
StoredBacklogs ==
    {[i \in 1..n |-> Report(i, "float")] : n \in 1..ResendRecords}

\* a process starts with a stored backlog
ResendInit ==
    /\ store \in StoredBacklogs
    /\ enable_telemetry \in BOOLEAN
    /\ queue = <<>>
    /\ unfinished = 0
    /\ failedque = <<>>
    /\ http_offline = FALSE
    /\ workers = EmptyBag
    /\ main = MainStart
    /\ nextId = Len(store) + 1
    /\ hist = [NoHist EXCEPT !.store0 = store]

\* the start of such a process: resend_backuped_reports runs while the worker
\* threads it starts go on with the reports
ResendNext ==
    \/ ResendLoad
    \/ ResendOne
    \/ PushPut
    \/ PushTune
    \/ ResendClean
    \/ WorkerStep

ResendSpec == ResendInit /\ [][ResendNext]_vars

\* ----------------------------------------------------------------- claims

Exited == main.pc = "exited"

\* _finalize reached backup_reports (the wait loop was not interrupted)
ShutdownBackedUp == Exited /\ hist.waitEnd \in {"drained", "timeout"}

HeldByWorker(id) == \E t \in BagToSet(workers) : t.pc # "idle" /\ t.item.id = id

AllSendsSucceeded == hist.rejected = {} /\ hist.unreachable = {}

AllSendsUnreachable == hist.delivered = {} /\ hist.rejected = {}

\* C1: after a shutdown that ran get_items and backup_reports without exceeding
\* the cap, every report submitted in the process whose send had not ended as
\* Delivered or Rejected when the snapshot was taken is in the stored backlog.
C1_NoSubmittedRecordLost ==
    (ShutdownBackedUp /\ hist.capDropped = {})
        => \A id \in hist.submitted \ hist.snapDone : id \in Ids(store)

\* C2 as stated, its safety half: when every send succeeds (here: every report
\* submitted in the process was delivered), shutdown has not written the
\* BacklogStore.
C2_NeverWrittenWhenAllSucceed ==
    (AllSendsSucceeded /\ hist.submitted # {} /\ hist.delivered = hist.submitted)
        => ~hist.saved

\* C2 amended: if every send succeeds, shutdown writes the BacklogStore only
\* when its wait loop ran into the timeout (never when it saw in_wait() = 0),
\* and under fair worker scheduling in_wait() reaches zero while the process
\* is running.
C2_DrainsAndWritesOnlyOnTimeout ==
    /\ [](AllSendsSucceeded /\ hist.saved => hist.waitEnd = "timeout")
    /\ (in_wait > 0) ~> (in_wait = 0 \/ ~AllSendsSucceeded \/ hist.waitEnd # "none")

\* C2 witness: every send succeeded, the wait loop saw in_wait() = 0 and the
\* process ended without a save.
C2_Witness ==
    /\ Exited /\ hist.waitEnd = "drained" /\ ~hist.saved
    /\ hist.delivered # {} /\ AllSendsSucceeded /\ in_wait = 0

\* C3: a report whose send ended with a 4xx status is dropped: once the worker
\* has finished with it, it is not in _failedque, and after a shutdown whose
\* wait saw every worker finished (in_wait() = 0) it is not in the stored
\* backlog.
C3_RejectedIsDropped ==
    \A id \in hist.rejected :
        /\ ~HeldByWorker(id) => id \notin Ids(failedque)
        /\ (Exited /\ hist.waitEnd = "drained") => id \notin Ids(store)

\* C4: a post that ends with a 4xx status leaves _http_offline as it was.
C4_RejectedLeavesOfflineFlag ==
    [][\A t \in BagToSet(workers) : \A resp \in Responses :
          (IsRejected(resp) /\ WorkerPost(t, resp)) => http_offline' = http_offline]_vars

\* C5: _http_offline is false when the process starts, is true right after a
\* post that ended Unreachable, and once true stays true until the process
\* ends; only a new process (the one step an ended process allows) starts
\* with it false again.
C5_OfflineFlagLatch ==
    /\ ~http_offline
    /\ [][/\ (http_offline /\ ~Exited) => http_offline'
          /\ Exited => ~http_offline'
          /\ \A t \in BagToSet(workers) : \A resp \in Responses :
                (t.pc = "post" /\ IsUnreachable(resp) /\ WorkerPost(t, resp))
                    => http_offline']_vars
    /\ [](hist.unreachable # {} => http_offline)

\* C5 witness: a post ended Unreachable, the flag is set, and operations of
\* every kind (a later push, worker steps, the shutdown) followed.
C5_Witness ==
    /\ hist.unreachable # {} /\ http_offline
    /\ hist.offpush # {} /\ ShutdownBackedUp

\* C6: a report pushed while the network is off-line is never put on the live
\* queue, no post is made for it, it is in _failedque, and after the shutdown
\* it is in the stored backlog.
C6_OfflinePushBypassesSend ==
    \A id \in hist.offpush :
        /\ id \notin hist.queued
        /\ id \notin hist.posted
        /\ id \in Ids(failedque)
        /\ Exited => id \in Ids(store)

\* C7: after a KeyboardInterrupt in the wait loop of _finalize the reports
\* outstanding at that moment are in the stored backlog.
C7_InterruptStillBacksUp ==
    (Exited /\ hist.waitEnd = "interrupt"
        /\ Len(store) + Len(failedque) + Len(queue) <= KEEP_MAX_REPORTS)
        => (Ids(failedque) \cup Ids(queue)) \subseteq Ids(store)

\* C8: the stored backlog never holds more than KEEP_MAX_REPORTS reports.
C8_BacklogWithinCap == Len(store) <= KEEP_MAX_REPORTS

\* C8 witness: backup_reports appended to a backlog left by an earlier run and
\* the cap dropped reports.
C8_Witness ==
    /\ Exited /\ hist.saved /\ hist.store0 # <<>>
    /\ hist.capDropped # {} /\ Len(store) = KEEP_MAX_REPORTS

\* C9: when more failing reports were submitted than the cap allows (all of
\* them in the shutdown snapshot), the stored backlog holds the most recently
\* submitted ones: every report left out was submitted before every report kept.
C9_BacklogKeepsMostRecent ==
    (ShutdownBackedUp /\ hist.store0 = <<>> /\ AllSendsUnreachable
        /\ Ids(main.items) = hist.submitted
        /\ Cardinality(hist.submitted) > KEEP_MAX_REPORTS)
        => /\ Len(store) = KEEP_MAX_REPORTS
           /\ \A kept \in Ids(store) : \A left \in hist.submitted \ Ids(store) :
                 left < kept

\* C10: a process that starts with a stored backlog, resends it with every send
\* failing, submits nothing else and shuts down leaves the same reports stored,
\* each once.
C10_ResendKeepsBacklog ==
    (ShutdownBackedUp /\ hist.store0 # <<>> /\ AllSendsUnreachable
        /\ hist.submitted = Ids(hist.store0))
        => /\ Ids(store) = Ids(hist.store0)
           /\ Len(store) = Len(hist.store0)

\* the reports this process handed to MPDataPusher.push
HandedToPusher == hist.queued \cup hist.offpush

\* C11 as stated: when resend_backuped_reports cleans the state item, every
\* report it loaded has been pushed (queued, or appended to _failedque when
\* off-line), and the stored backlog is empty afterwards.
C11_ResendHandsOverEveryRecord ==
    [][ResendClean => /\ Ids(hist.store0) \subseteq HandedToPusher
                      /\ store' = <<>>]_vars

\* C11 amended: the stored backlog is empty after the resend in every case;
\* when enable_telemetry is set the loaded reports have all been pushed
\* before that, each either put on the queue or, by a push that found the
\* network off-line, appended to _failedque; with the setting off
\* MeasurementProtocol.send returns at once and none is pushed.
C11_ResendHandsOverWhenEnabled ==
    [][ResendClean => /\ enable_telemetry
                           => /\ HandedToPusher = Ids(hist.store0)
                              /\ hist.queued \cap hist.offpush = {}
                              /\ hist.offpush # {} => http_offline
                              /\ hist.offpush \subseteq Ids(failedque)
                      /\ ~enable_telemetry => HandedToPusher = {}
                      /\ store' = <<>>]_vars

\* a stored backlog of several reports was resent with telemetry enabled and
\* cleaned: the post of the first report resent failed during the loop, so
\* a later one was appended to _failedque by push
C11_Witness ==
    /\ main.pc = "run"
    /\ enable_telemetry
    /\ Len(hist.store0) > 1
    /\ store = <<>>
    /\ http_offline
    /\ hist.queued # {}
    /\ hist.offpush # {}
    /\ hist.queued \cup hist.offpush = Ids(hist.store0)
    /\ hist.offpush \subseteq Ids(failedque)

\* len(self._workers)
PoolSize == main.roster

\* the worker threads that were started
Threads == BagCardinality(workers)

\* C12: in every reachable state, the states inside _tune_workers included,
\* the roster holds at most MAX_WORKERS threads, and so does the roster
\* together with the threads the running call still has to start; the threads
\* started are those of the roster, plus the one between t.start() and
\* self._workers.append(t).
C12_RosterWithinCap ==
    /\ PoolSize <= MAX_WORKERS
    /\ PoolSize + main.start <= MAX_WORKERS
    /\ Threads <= MAX_WORKERS
    /\ Threads = PoolSize + (IF main.pc \in {"enroll", "resend_enroll"} THEN 1 ELSE 0)

\* more reports are queued than MAX_WORKERS, _tune_workers read that depth
\* and the roster is at the cap
C12_Witness ==
    /\ Len(queue) > MAX_WORKERS
    /\ hist.depth > MAX_WORKERS
    /\ PoolSize = MAX_WORKERS
    /\ Threads = MAX_WORKERS

\* C13 as stated (PoolRecords standing for the 10 reports): once all the
\* reports have been pushed to the queue the roster holds exactly MAX_WORKERS
\* threads, whatever the workers did between the pushes.
C13_PoolIsFullAfterAllSubmits ==
    (Cardinality(hist.queued) = PoolRecords /\ ~InPush)
        => PoolSize = MAX_WORKERS

\* C13 amended: once push has returned the roster holds exactly
\* min(d, MAX_WORKERS) threads, d being the deepest queue a call of
\* _tune_workers read with qsize(): MAX_WORKERS when a call read a depth of
\* MAX_WORKERS or more, fewer when the workers took the reports before every
\* read. So it holds at most min(reports pushed, MAX_WORKERS) threads, at
\* least min(queue length, MAX_WORKERS), and at least one if a report was
\* pushed. Inside a call the roster and the threads still to start add up to
\* that number.
C13_PoolFollowsQueueDepth ==
    /\ ~InPush => PoolSize = Min(hist.depth, MAX_WORKERS)
    /\ main.pc \in {"spawn", "enroll", "resend_spawn", "resend_enroll"}
          => PoolSize + main.start = Min(hist.depth, MAX_WORKERS)
    /\ hist.depth <= Cardinality(hist.queued)
    /\ PoolSize <= Min(Cardinality(hist.queued), MAX_WORKERS)
    /\ ~InPush =>
          /\ PoolSize >= Min(Len(queue), MAX_WORKERS)
          /\ hist.queued # {} => PoolSize >= 1

\* all the reports were pushed; a call of _tune_workers read a depth of
\* MAX_WORKERS after workers had taken reports, and the roster is full with
\* fewer reports queued than were pushed
C13_Witness ==
    /\ ~InPush
    /\ Cardinality(hist.queued) = PoolRecords
    /\ hist.depth = MAX_WORKERS
    /\ Len(queue) < MAX_WORKERS
    /\ PoolSize = MAX_WORKERS

\* C14: every step that takes a report off the live queue takes the most
\* recently submitted of the queued reports (in PoolSpec the reports are
\* submitted in the order of their ids) and hands it to a worker, the others
\* staying queued in their order; so reports 1, 2, 3 queued together are
\* popped 3, 2, 1.
C14_PopsMostRecentlySubmitted ==
    [][Len(queue') < Len(queue) =>
          \E k \in 1..Len(queue) :
              /\ \A i \in 1..Len(queue) : queue[i].id <= queue[k].id
              /\ queue' = SubSeq(queue, 1, k - 1) \o SubSeq(queue, k + 1, Len(queue))
              /\ \E t \in BagToSet(workers') :
                    t.pc = "got" /\ t.item = queue[k]]_vars

\* reports 1, 2, 3 were queued together; one worker has popped and delivered
\* 3 and then popped 2, and 1 is still queued
C14_Witness ==
    /\ nextId = 4
    /\ PoolSize = 3
    /\ hist.delivered = {3}
    /\ HeldByWorker(2)
    /\ Ids(queue) = {1}

\* the worker threads between queue.get() and task_done()
BusyWorkers ==
    [t \in {u \in BagToSet(workers) : u.pc # "idle"} |-> CopiesIn(t, workers)]

\* get_items has not started to take reports off the queue
BeforeSnapshot == main.pc \notin {"drain", "exited"}

\* C15: before the shutdown snapshot in_wait() is the number of queued reports
\* plus the number of reports popped by a worker that has not finished with
\* them; a worker's finish takes one off the count whatever its send returned
\* (delivered, rejected, unreachable or an exception caught in _send_data).
C15_InWaitCountsQueuedAndInFlight ==
    BeforeSnapshot => in_wait = Len(queue) + BagCardinality(BusyWorkers)

\* one report's send failed and its worker finished, another is still counted
C15_Witness ==
    /\ BeforeSnapshot
    /\ \E id \in hist.unreachable \cup hist.rejected : ~HeldByWorker(id)
    /\ in_wait = 1
    /\ Len(queue) + BagCardinality(BusyWorkers) = 1

\* C16: a report that a worker has popped and whose send has not returned has
\* its stamped copy in _failedque, so the queue and _failedque together hold
\* every report that is queued or in flight.
C16_InFlightCopyTracked ==
    \A t \in BagToSet(workers) :
        t.pc \in {"got", "tracked", "send", "post"} =>
            /\ \E i \in 1..Len(failedque) : failedque[i] = StampQt(t.item)
            /\ t.item.id \in Ids(queue) \cup Ids(failedque)

\* C17: within one process no report is posted twice; a report that was
\* posted is never on the queue again, and one whose post was unreachable has
\* its copy in _failedque from then on.
C17_PostedAtMostOnce ==
    /\ hist.reposted = {}
    /\ \A id \in hist.posted : id \notin Ids(queue)
    /\ \A id \in hist.unreachable :
          /\ id \in Ids(failedque)
          /\ Len(SelectSeq(failedque, LAMBDA r : r.id = id)) = 1

\* a report's post failed, its worker went back to the queue and took the
\* next report, and the failed one is still in _failedque
C17_Witness ==
    \E id \in hist.unreachable :
        /\ ~HeldByWorker(id)
        /\ id \in Ids(failedque)
        /\ \E t \in BagToSet(workers) : t.pc = "sent" /\ t.item.id # id
        /\ hist.posted = {id}

\* C18: the wait loop of _finalize polls in_wait() at most 5 times (elapsed
\* grows by FINALIZE_STEP per poll up to FINALIZE_TIMEOUT), and a shutdown
\* that has ended with in_wait() > 0 and a worker still busy went on to the
\* backup: its wait ended by the timeout, and the reports outstanding at the
\* snapshot (submitted, their send not ended as delivered or rejected) are
\* stored, up to the cap.
C18_BoundedWaitThenBackup ==
    /\ main.elapsed <= FINALIZE_TIMEOUT
    /\ main.elapsed \div FINALIZE_STEP <= 5
    /\ (Exited /\ in_wait > 0 /\ BusyWorkers # EmptyBag)
          => /\ hist.waitEnd = "timeout"
             /\ hist.submitted \ hist.snapDone
                   \subseteq Ids(store) \cup hist.capDropped

\* the reports held by the workers between queue.get() and task_done()
InFlightItems == {t.item : t \in {u \in BagToSet(workers) : u.pc # "idle"}}

\* C19 as stated: every report on the queue, in flight in a worker, in
\* _failedque or in the stored backlog has a qt.
C19_EveryRecordHasQt ==
    /\ \A i \in 1..Len(queue) : queue[i].qt # "none"
    /\ \A r \in InFlightItems : r.qt # "none"
    /\ \A i \in 1..Len(failedque) : failedque[i].qt # "none"
    /\ \A i \in 1..Len(store) : store[i].qt # "none"

\* C19 amended: the reports in _failedque and in the stored backlog have a qt
\* (a unix time in the store); a report on the queue or held by a worker has
\* one only when it was resent from the backlog (the int the resend computed),
\* a newly submitted one has none.
C19_QtOnTrackedAndStoredRecords ==
    /\ \A i \in 1..Len(failedque) : failedque[i].qt # "none"
    /\ \A i \in 1..Len(store) : store[i].qt = "float"
    /\ \A i \in 1..Len(queue) :
          queue[i].qt = IF queue[i].id \in Ids(hist.store0) THEN "int" ELSE "none"
    /\ \A r \in InFlightItems :
          r.qt = IF r.id \in Ids(hist.store0) THEN "int" ELSE "none"

\* a new report is queued without qt while a worker posts another one, also
\* without qt, whose copy in _failedque carries the time stamp
C19_Witness ==
    /\ \E i \in 1..Len(queue) : queue[i].qt = "none"
    /\ \E t \in BagToSet(workers) :
          /\ t.pc = "post"
          /\ t.item.qt = "none"
          /\ \E i \in 1..Len(failedque) :
                failedque[i] = Report(t.item.id, "float")

\* C20 as stated: with the workers scheduled fairly, in_wait() reaches zero
\* whatever the posts return.
C20_InWaitReachesZero == (in_wait > 0) ~> (in_wait = 0)

\* C20 amended: with the workers scheduled fairly and whatever the posts
\* return, in_wait() reaches zero unless the wait of _finalize has ended
\* before (get_items then takes the queued reports without task_done); once
\* the network is marked off-line no worker passes the test of the flag in
\* _send_data any more, so the only posts still started are those of workers
\* that had passed it before.
C20_InWaitReachesZeroWhileWaiting ==
    /\ (in_wait > 0) ~> (in_wait = 0 \/ hist.waitEnd # "none")
    /\ [][http_offline =>
             \A t \in BagToSet(workers') :
                 t.pc = "send" => CopiesIn(t, workers') <= CopiesIn(t, workers)]_vars
    /\ [][\A id \in hist.posted' \ hist.posted :
             \E t \in BagToSet(workers) : t.pc = "send" /\ t.item.id = id]_vars

\* a queued report was popped after the network was marked off-line: it is
\* in _failedque, was never posted, and in_wait() is back to zero
C20_Witness ==
    /\ http_offline
    /\ hist.waitEnd = "none"
    /\ in_wait = 0
    /\ \E id \in hist.queued \ hist.posted :
          ~HeldByWorker(id) /\ id \in Ids(failedque)

====
